---- MODULE Spec2Model ----
(***************************************************************************)
(* SendForSign MCP server: credential resolution, argument validation and  *)
(* the single backend POST of every tool call.                             *)
(*                                                                         *)
(* Two variants of the server are modelled:                                *)
(*   "index"   - src/src/index.ts (tools read the process environment and  *)
(*               an optional clientKey argument)                           *)
(*   "session" - src/unnamed/part_003, lines 56-414 (tools read the        *)
(*               session built by authenticate, four tools)                *)
(*                                                                         *)
(* The oldest variant (part_003, lines 415-624, getHeaderOrEnv) is not      *)
(* modelled.  One behaviour is one session: the client connects once       *)
(* (authenticate), then makes up to MaxCalls tool calls, which may be      *)
(* suspended in their backend POST at the same time.                       *)
(*                                                                         *)
(* Strings are sequences of one-character strings, so that trim(),         *)
(* toLowerCase(), startsWith() and slice() are computed, and JavaScript    *)
(* values are records tagged by their type.                                *)
(***************************************************************************)
EXTENDS Naturals, Sequences, FiniteSets, Bags

\* Number of tool calls made in one session.
MaxCalls == 2

\* Cap on the POSTs counted for one call.
MaxPosts == 2

\* Number of top-level fields of an object given to removeEmptyTopLevel.
MaxFields == 2

\* Largest exit code of the launcher's child.
MaxExitCode == 2

----------------------------------------------------------------------------
(* JavaScript values *)

Undef == [t |-> "undefined"]
Null == [t |-> "null"]
Num(n) == [t |-> "number", n |-> n]
Bool(b) == [t |-> "boolean", b |-> b]
Str(s) == [t |-> "string", s |-> s]
Arr(a) == [t |-> "array", a |-> a]
Obj(e) == [t |-> "object", e |-> e]
Entry(k, v) == [k |-> k, v |-> v]

IsStr(v) == v.t = "string"

\* JavaScript truthiness: undefined, null, "", 0 and false are falsy, other
\* strings and numbers, arrays and objects are truthy.
Truthy(v) == CASE v.t \in {"undefined", "null"} -> FALSE
               [] v.t = "string" -> v.s # <<>>
               [] v.t = "number" -> v.n # 0
               [] v.t = "boolean" -> v.b
               [] OTHER -> TRUE

\* a || b
Or(a, b) == IF Truthy(a) THEN a ELSE b

\* obj[key]: the value of the first entry named key, undefined when absent.
Get(obj, key) ==
  LET idx == {i \in 1..Len(obj.e) : obj.e[i].k = key}
  IN  IF idx = {} THEN Undef
      ELSE obj.e[CHOOSE i \in idx : \A j \in idx : i <= j].v

Keys(obj) == {obj.e[i].k : i \in 1..Len(obj.e)}

----------------------------------------------------------------------------
(* String functions *)

\* The white space trim() removes and JSON texts may hold between tokens.
IsSpace(c) == c \in {" ", "\n"}

RECURSIVE TrimLeft(_)
TrimLeft(s) == IF s # <<>> /\ IsSpace(Head(s)) THEN TrimLeft(Tail(s)) ELSE s

RECURSIVE TrimRight(_)
TrimRight(s) ==
  IF s # <<>> /\ IsSpace(s[Len(s)]) THEN TrimRight(SubSeq(s, 1, Len(s) - 1))
  ELSE s

\* String.prototype.trim
Trim(s) == TrimRight(TrimLeft(s))

LowerChar(c) == CASE c = "B" -> "b"
                  [] c = "E" -> "e"
                  [] c = "A" -> "a"
                  [] c = "R" -> "r"
                  [] OTHER -> c

\* String.prototype.toLowerCase
ToLowerCase(s) == [i \in 1..Len(s) |-> LowerChar(s[i])]

\* String.prototype.startsWith
StartsWith(s, p) == Len(s) >= Len(p) /\ SubSeq(s, 1, Len(p)) = p

\* String.prototype.slice(n)
Slice(s, n) == SubSeq(s, n + 1, Len(s))

\* sub occurs in s as a contiguous piece.
Contains(s, sub) ==
  \E i \in 0..Len(s) :
    i + Len(sub) <= Len(s) /\ SubSeq(s, i + 1, i + Len(sub)) = sub

Digit(d) == CASE d = 0 -> "0" [] d = 1 -> "1" [] d = 2 -> "2" [] d = 3 -> "3"
              [] d = 4 -> "4" [] d = 5 -> "5" [] d = 6 -> "6" [] d = 7 -> "7"
              [] d = 8 -> "8" [] d = 9 -> "9"

\* `${n}` for a natural number
RECURSIVE NumText(_)
NumText(n) == IF n < 10 THEN <<Digit(n)>>
              ELSE NumText(n \div 10) \o <<Digit(n % 10)>>

----------------------------------------------------------------------------
(* src/src/index.ts: extractApiKey, removeEmptyTopLevel *)

BearerPrefix == <<"b", "e", "a", "r", "e", "r", " ">>

\* headers: an object from lower-cased header names to strings.
extractApiKey(headers) ==
  LET headerAuth == Get(headers, "authorization")
      headerApiKey == Or(Get(headers, "x-sendforsign-key"),
                         Get(headers, "x-api-key"))
  IN  IF Truthy(headerApiKey) THEN headerApiKey
      ELSE IF IsStr(headerAuth)
              /\ StartsWith(ToLowerCase(headerAuth.s), BearerPrefix)
           THEN Str(Trim(Slice(headerAuth.s, 7)))
           ELSE Undef

extractClientKey(headers) ==
  LET headerClientKey == Get(headers, "x-client-key")
  IN  IF ~Truthy(headerClientKey) THEN Undef ELSE headerClientKey

\* TRUE for the values removeEmptyTopLevel skips.
IsEmptyValue(v) ==
  \/ v.t \in {"undefined", "null"}
  \/ v.t = "string" /\ Trim(v.s) = <<>>
  \/ v.t = "array" /\ Len(v.a) = 0
  \/ v.t = "object" /\ Len(v.e) = 0

keepEntry(en) == ~IsEmptyValue(en.v)

\* The same one level down: what a pruning of nested objects would leave.
pruneNested(v) == IF v.t = "object" THEN Obj(SelectSeq(v.e, keepEntry)) ELSE v

\* A pruning that also prunes the objects nested in the fields.
removeEmptyNested(obj) ==
  Obj(SelectSeq([i \in 1..Len(obj.e) |->
                   Entry(obj.e[i].k, pruneNested(obj.e[i].v))], keepEntry))

\* Object.entries(obj) in order, the empty ones skipped, the others copied.
removeEmptyTopLevel(obj) == Obj(SelectSeq(obj.e, keepEntry))

----------------------------------------------------------------------------
(* JSON text: res.body.json() and JSON.stringify *)

\* A JSON text is a sequence of characters.  Parsed objects keep their keys
\* as character sequences, in the order of the text.
ParseFail == [ok |-> FALSE, v |-> Undef, i |-> 0]

RECURSIVE SkipWs(_, _)
SkipWs(txt, i) ==
  IF i <= Len(txt) /\ IsSpace(txt[i]) THEN SkipWs(txt, i + 1) ELSE i

\* Index of the first quote at or after i, 0 when there is none.
RECURSIVE FindQuote(_, _)
FindQuote(txt, i) ==
  IF i > Len(txt) THEN 0
  ELSE IF txt[i] = "\"" THEN i
  ELSE FindQuote(txt, i + 1)

\* txt[i] is an opening quote.
ParseString(txt, i) ==
  LET j == FindQuote(txt, i + 1)
  IN  IF j = 0 THEN ParseFail
      ELSE [ok |-> TRUE, v |-> Str(SubSeq(txt, i + 1, j - 1)), i |-> j + 1]

RECURSIVE ParseValue(_, _)
RECURSIVE ParseElements(_, _, _)
RECURSIVE ParseMembers(_, _, _)

\* The elements of an array after "[" or ",", acc holding those already read.
ParseElements(txt, i, acc) ==
  LET r == ParseValue(txt, i)
      j == SkipWs(txt, r.i)
  IN  IF ~r.ok \/ j > Len(txt) THEN ParseFail
      ELSE IF txt[j] = "," THEN ParseElements(txt, j + 1, Append(acc, r.v))
      ELSE IF txt[j] = "]"
           THEN [ok |-> TRUE, v |-> Arr(Append(acc, r.v)), i |-> j + 1]
      ELSE ParseFail

\* The members of an object after "{" or ",", acc holding those already read.
ParseMembers(txt, i, acc) ==
  LET k0 == SkipWs(txt, i)
      key == IF k0 <= Len(txt) /\ txt[k0] = "\"" THEN ParseString(txt, k0)
             ELSE ParseFail
      c == SkipWs(txt, key.i)
      r == IF key.ok /\ c <= Len(txt) /\ txt[c] = ":"
           THEN ParseValue(txt, c + 1) ELSE ParseFail
      j == SkipWs(txt, r.i)
      en == Entry(key.v.s, r.v)
  IN  IF ~r.ok \/ j > Len(txt) THEN ParseFail
      ELSE IF txt[j] = "," THEN ParseMembers(txt, j + 1, Append(acc, en))
      ELSE IF txt[j] = "}"
           THEN [ok |-> TRUE, v |-> Obj(Append(acc, en)), i |-> j + 1]
      ELSE ParseFail

ParseValue(txt, i) ==
  LET j == SkipWs(txt, i)
  IN  IF j > Len(txt) THEN ParseFail
      ELSE IF txt[j] = "\"" THEN ParseString(txt, j)
      ELSE IF txt[j] = "["
           THEN LET k == SkipWs(txt, j + 1)
                IN  IF k <= Len(txt) /\ txt[k] = "]"
                    THEN [ok |-> TRUE, v |-> Arr(<<>>), i |-> k + 1]
                    ELSE ParseElements(txt, j + 1, <<>>)
      ELSE IF txt[j] = "{"
           THEN LET k == SkipWs(txt, j + 1)
                IN  IF k <= Len(txt) /\ txt[k] = "}"
                    THEN [ok |-> TRUE, v |-> Obj(<<>>), i |-> k + 1]
                    ELSE ParseMembers(txt, j + 1, <<>>)
      ELSE ParseFail

\* JSON.parse of a whole text: one value, then only whitespace.
JsonParse(txt) ==
  LET r == ParseValue(txt, 1)
  IN  IF r.ok /\ SkipWs(txt, r.i) = Len(txt) + 1 THEN r ELSE ParseFail

RECURSIVE Stringify(_)
RECURSIVE StringifyElements(_, _)
RECURSIVE StringifyMembers(_, _)

StringifyElements(a, i) ==
  IF i > Len(a) THEN <<>>
  ELSE (IF i > 1 THEN <<",">> ELSE <<>>) \o Stringify(a[i])
       \o StringifyElements(a, i + 1)

StringifyMembers(e, i) ==
  IF i > Len(e) THEN <<>>
  ELSE (IF i > 1 THEN <<",">> ELSE <<>>)
       \o <<"\"">> \o e[i].k \o <<"\"", ":">> \o Stringify(e[i].v)
       \o StringifyMembers(e, i + 1)

\* JSON.stringify(v) of a parsed value: the compact text.
Stringify(v) ==
  CASE v.t = "string" -> <<"\"">> \o v.s \o <<"\"">>
    [] v.t = "array" -> <<"[">> \o StringifyElements(v.a, 1) \o <<"]">>
    [] v.t = "object" -> <<"{">> \o StringifyMembers(v.e, 1) \o <<"}">>

RECURSIVE Pretty(_, _)
RECURSIVE PrettyElements(_, _, _)
RECURSIVE PrettyMembers(_, _, _)

Spaces(n) == [i \in 1..n |-> " "]

PrettyElements(a, i, ind) ==
  IF i > Len(a) THEN <<>>
  ELSE (IF i > 1 THEN <<",">> ELSE <<>>) \o <<"\n">> \o Spaces(ind)
       \o Pretty(a[i], ind) \o PrettyElements(a, i + 1, ind)

PrettyMembers(e, i, ind) ==
  IF i > Len(e) THEN <<>>
  ELSE (IF i > 1 THEN <<",">> ELSE <<>>) \o <<"\n">> \o Spaces(ind)
       \o <<"\"">> \o e[i].k \o <<"\"", ":", " ">> \o Pretty(e[i].v, ind)
       \o PrettyMembers(e, i + 1, ind)

\* JSON.stringify(v, null, 2) of a parsed value, written at indentation ind.
Pretty(v, ind) ==
  CASE v.t = "string" -> <<"\"">> \o v.s \o <<"\"">>
    [] v.t = "array" ->
         IF Len(v.a) = 0 THEN <<"[", "]">>
         ELSE <<"[">> \o PrettyElements(v.a, 1, ind + 2)
              \o <<"\n">> \o Spaces(ind) \o <<"]">>
    [] v.t = "object" ->
         IF Len(v.e) = 0 THEN <<"{", "}">>
         ELSE <<"{">> \o PrettyMembers(v.e, 1, ind + 2)
              \o <<"\n">> \o Spaces(ind) \o <<"}">>

\* An asText that forgets the indentation: JSON.stringify(data)
asTextCompact(data) == Stringify(data)

\* JSON.stringify(data, null, 2)
asText(data) == Pretty(data, 0)

----------------------------------------------------------------------------
(* Inputs: the process environment, request headers, tool arguments and     *)
(* backend responses                                                        *)

TrueStr == Str(<<"t", "r", "u", "e">>)

\* SFS_API_KEY and SFS_CLIENT_KEY values of the environment.
EnvApiKeys == {Undef, Str(<<"e">>)}
EnvClientKeys == {Undef, Str(<<" ">>), Str(<<"c">>)}

\* The flags that select the transport: none set (stdio), or
\* CLOUD_SERVICE=true (httpStream).
EnvFlags ==
  { [CLOUD_SERVICE |-> Undef, SSE_LOCAL |-> Undef,
     HTTP_STREAMABLE_SERVER |-> Undef],
    [CLOUD_SERVICE |-> TrueStr, SSE_LOCAL |-> Undef,
     HTTP_STREAMABLE_SERVER |-> Undef] }

Envs ==
  { [CLOUD_SERVICE |-> f.CLOUD_SERVICE, SSE_LOCAL |-> f.SSE_LOCAL,
     HTTP_STREAMABLE_SERVER |-> f.HTTP_STREAMABLE_SERVER,
     SFS_API_KEY |-> a, SFS_CLIENT_KEY |-> c] :
    f \in EnvFlags, a \in EnvApiKeys, c \in EnvClientKeys }

\* Header sets of an inbound HTTP request (names lower-cased by node).
HeaderSets ==
  { Obj(<<>>),
    Obj(<<Entry("x-sendforsign-key", Str(<<"h">>)),
          Entry("x-client-key", Str(<<"x">>))>>),
    Obj(<<Entry("x-api-key", Str(<<"h">>))>>),
    Obj(<<Entry("authorization",
                Str(<<"B", "e", "a", "r", "e", "r", " ", "h", " ">>))>>) }

Variants == {"index", "session"}

Tools(v) ==
  IF v = "index" THEN {"sfs_list_templates", "sfs_read_template"}
  ELSE {"sfs_list_templates", "sfs_read_template", "sfs_list_placeholders",
        "sfs_create_contract"}

NoArgs ==
  [templateKey |-> Undef, clientKey |-> Undef, name |-> Undef, value |-> Undef]

TemplateKeyArgs == {Str(<<>>), Str(<<" ">>), Str(<<"t">>)}
ClientKeyArgs == {Undef, Str(<<" ">>), Str(<<"a">>)}
NameArgs == {Str(<<" ">>), Str(<<"n">>)}
ValueArgs == {Undef, Str(<<"v">>)}

\* The argument objects a tool is called with.  execute is modelled for
\* every one of them, also those the zod schema of the tool would reject.
ArgSets(v, tool) ==
  CASE tool = "sfs_list_templates" /\ v = "index" ->
         {[NoArgs EXCEPT !.clientKey = c] : c \in ClientKeyArgs}
    [] tool = "sfs_list_templates" /\ v = "session" -> {NoArgs}
    [] tool = "sfs_read_template" /\ v = "index" ->
         {[NoArgs EXCEPT !.templateKey = t] : t \in TemplateKeyArgs}
         \cup {[NoArgs EXCEPT !.templateKey = Str(<<"t">>),
                              !.clientKey = Str(<<"a">>)]}
    [] tool \in {"sfs_read_template", "sfs_list_placeholders"}
       /\ v = "session" ->
         {[NoArgs EXCEPT !.templateKey = t] : t \in TemplateKeyArgs}
    [] tool = "sfs_create_contract" ->
         {[NoArgs EXCEPT !.name = n, !.value = w] :
            n \in NameArgs, w \in ValueArgs}

\* Response texts: compact JSON, JSON with insignificant whitespace, and a
\* text that is no JSON.
BodyCompact == <<"{", "\"", "o", "\"", ":", "[", "]", "}">>
BodySpaced == <<"{", " ", "\"", "e", "\"", ":", " ", "\"", "o", "\"", "}">>
BodyNotJson == <<"<", "e", ">">>

NoResponse == [kind |-> "none", statusCode |-> 0, body |-> <<>>]
NetworkError == [kind |-> "networkError", statusCode |-> 0, body |-> <<>>]
Response(st, b) == [kind |-> "response", statusCode |-> st, body |-> b]

\* What the backend can answer to one POST.
Responses ==
  { NetworkError,
    Response(200, BodySpaced),
    Response(404, BodyCompact),
    Response(502, BodyNotJson) }

\* Objects given to removeEmptyTopLevel: up to MaxFields fields, named in
\* order, with values of every kind the function tells apart.
FieldNames == <<"a", "b", "c", "d">>

FieldValues ==
  { Undef, Null, Num(0), Bool(FALSE),
    Str(<<>>), Str(<<" ", "\n">>), Str(<<"x">>),
    Arr(<<>>), Arr(<<Str(<<>>)>>),
    Obj(<<>>), Obj(<<Entry("n", Obj(<<>>)), Entry("s", Str(<<" ">>))>>) }

\* Environments of a server start: every flag unset, "true" or set to
\* something else, HOST unset, empty or a name, PORT unset or a number.
FlagValues == {Undef, TrueStr, Str(<<"1">>)}
HostValues == {Undef, Str(<<>>), Str(<<"h">>)}
PortValues == {Undef, Str(<<"8", "0">>)}

StartEnvs ==
  { [CLOUD_SERVICE |-> c, SSE_LOCAL |-> l, HTTP_STREAMABLE_SERVER |-> r,
     SFS_API_KEY |-> Undef, SFS_CLIENT_KEY |-> Undef,
     HOST |-> h, PORT |-> p] :
    c \in FlagValues, l \in FlagValues, r \in FlagValues,
    h \in HostValues, p \in PortValues }

PruneInputs ==
  UNION { { Obj([i \in 1..n |-> Entry(FieldNames[i], f[i])]) :
              f \in [1..n -> FieldValues] } : n \in 0..MaxFields }

----------------------------------------------------------------------------
(* Errors and results of a tool call *)

NoResult == [ok |-> FALSE, name |-> "", msg |-> <<>>, text |-> <<>>]
Thrown(name, msg) == [ok |-> FALSE, name |-> name, msg |-> msg, text |-> <<>>]
Returned(text) == [ok |-> TRUE, name |-> "", msg |-> <<>>, text |-> text]

UnauthorizedText == "Unauthorized - API key and client key are required"
MissingText == "Missing required argument "

\* new Error("Unauthorized - API key and client key are required")
UnauthorizedError == Thrown("Error", <<UnauthorizedText>>)

\* The same with the hint of the session variant.
UnauthorizedErrorEnv ==
  Thrown("Error",
         <<UnauthorizedText,
           ". Please set SFS_API_KEY and SFS_CLIENT_KEY environment variables.">>)

\* new Error('Missing required argument "<field>"')
MissingArgument(field) == Thrown("Error", <<MissingText, "\"", field, "\"">>)

\* A check that forgets trim(): !x
MissingNoTrim(x) == ~Truthy(x)

\* !x || !x.trim()
Missing(x) == ~Truthy(x) \/ ~Truthy(Str(Trim(x.s)))

----------------------------------------------------------------------------
(* sfsCall / sfsApiCall *)

NoReq == [endpoint |-> "", method |-> "", apiKey |-> Undef, body |-> Undef]

\* What execute does up to its first suspension: it throws, or it is
\* suspended in the POST of sfsCall.
Throw(e) == [kind |-> "throw", error |-> e, req |-> NoReq]

\* request(endpoint, {method: "POST", headers: {"X-Sendforsign-Key": apiKey,
\* ...}, body: JSON.stringify(body)})
sfsApiCall(apiKey, path, body) ==
  [kind |-> "post", error |-> NoResult,
   req |-> [endpoint |-> "https://api.sendforsign.com/api/" \o path,
            method |-> "POST", apiKey |-> apiKey, body |-> body]]

sfsCall(apiKey, body) == sfsApiCall(apiKey, "template", body)

\* An sfsCall that posts again after a failure.
sfsCallResultRetry(resp) ==
  IF resp.kind = "networkError" \/ resp.statusCode >= 300
  THEN [kind |-> "post", error |-> NoResult, json |-> Undef]
  ELSE LET parsed == JsonParse(resp.body)
       IN  IF ~parsed.ok
           THEN [kind |-> "throw",
                 error |-> Thrown("SyntaxError", <<"Unexpected token">>),
                 json |-> Undef]
           ELSE [kind |-> "return", error |-> NoResult, json |-> parsed.v]

\* The rest of sfsCall once the backend has answered: request() rejects on
\* a transport error, res.body.json() rejects on a text that is no JSON, a
\* status outside 2xx throws, and the parsed value is returned otherwise.
sfsCallResult(resp) ==
  IF resp.kind = "networkError"
  THEN [kind |-> "throw", error |-> Thrown("TypeError", <<"fetch failed">>),
        json |-> Undef]
  ELSE LET parsed == JsonParse(resp.body)
       IN  IF ~parsed.ok
           THEN [kind |-> "throw",
                 error |-> Thrown("SyntaxError", <<"Unexpected token">>),
                 json |-> Undef]
           ELSE IF resp.statusCode < 200 \/ resp.statusCode >= 300
           THEN [kind |-> "throw",
                 error |-> Thrown("Error",
                                  <<"SFS error ">> \o NumText(resp.statusCode)
                                  \o <<":", " ">> \o Stringify(parsed.v)),
                 json |-> Undef]
           ELSE [kind |-> "return", error |-> NoResult, json |-> parsed.v]

----------------------------------------------------------------------------
(* src/src/index.ts: authenticate and the two tools *)

ListAction == Str(<<"l", "i", "s", "t">>)
ReadAction == Str(<<"r", "e", "a", "d">>)
CreateAction == Str(<<"c", "r", "e", "a", "t", "e">>)

\* An authenticate that rejects a connection without credentials.
index_authenticate_strict(request, env) ==
  LET apiKeyFromHeader == extractApiKey(request.headers)
      clientKeyFromHeader == extractClientKey(request.headers)
  IN  IF ~Truthy(Or(apiKeyFromHeader, env.SFS_API_KEY))
         \/ ~Truthy(Or(clientKeyFromHeader, env.SFS_CLIENT_KEY))
      THEN [ok |-> FALSE, session |-> Undef]
      ELSE [ok |-> TRUE, session |-> Obj(<<>>)]

\* request.headers is always an object in this variant.
index_authenticate(request, env) ==
  LET isCloud == env.CLOUD_SERVICE = TrueStr
      apiKeyFromHeader == extractApiKey(request.headers)
      clientKeyFromHeader == extractClientKey(request.headers)
      both == Obj(<<Entry("apiKey", apiKeyFromHeader),
                    Entry("clientKey", clientKeyFromHeader)>>)
  IN  IF isCloud
      THEN IF ~Truthy(apiKeyFromHeader) \/ ~Truthy(clientKeyFromHeader)
           THEN [ok |-> TRUE, session |-> removeEmptyTopLevel(both)]
           ELSE [ok |-> TRUE, session |-> both]
      ELSE [ok |-> TRUE, session |-> Obj(<<>>)]

\* A list_templates that lets the argument override the API key too.
index_sfs_list_templates_keyFromArg(args, session, env) ==
  LET clientKeyArg == args.clientKey
      apiKey == Or(clientKeyArg, env.SFS_API_KEY)
      clientKey == Or(clientKeyArg, env.SFS_CLIENT_KEY)
  IN  IF ~Truthy(apiKey) \/ ~Truthy(clientKey) THEN Throw(UnauthorizedError)
      ELSE sfsCall(apiKey,
             Obj(<<Entry("data",
                     removeEmptyTopLevel(
                       Obj(<<Entry("clientKey", clientKey),
                             Entry("action", ListAction)>>)))>>))

index_sfs_list_templates(args, session, env) ==
  LET clientKeyArg == args.clientKey
      apiKey == env.SFS_API_KEY
      clientKey == Or(clientKeyArg, env.SFS_CLIENT_KEY)
  IN  IF ~Truthy(apiKey) \/ ~Truthy(clientKey) THEN Throw(UnauthorizedError)
      ELSE sfsCall(apiKey,
             Obj(<<Entry("data",
                     removeEmptyTopLevel(
                       Obj(<<Entry("clientKey", clientKey),
                             Entry("action", ListAction)>>)))>>))

index_sfs_read_template(args, session, env) ==
  LET templateKey == args.templateKey
      clientKeyArg == args.clientKey
      apiKey == env.SFS_API_KEY
      clientKey == Or(clientKeyArg, env.SFS_CLIENT_KEY)
  IN  IF Missing(templateKey) THEN Throw(MissingArgument("templateKey"))
      ELSE IF ~Truthy(apiKey) \/ ~Truthy(clientKey)
      THEN Throw(UnauthorizedError)
      ELSE sfsCall(apiKey,
             Obj(<<Entry("data",
                     removeEmptyTopLevel(
                       Obj(<<Entry("action", ReadAction),
                             Entry("clientKey", clientKey),
                             Entry("template",
                                   Obj(<<Entry("templateKey",
                                               templateKey)>>))>>)))>>))

----------------------------------------------------------------------------
(* src/unnamed/part_003, lines 56-414: authenticate and the four tools of   *)
(* the variant that keeps the credentials in the session                    *)

EmptyStr == Str(<<>>)

\* request.headers may be undefined (stdio).
session_authenticate(request, env) ==
  LET apiKey ==
        IF Truthy(request.headers)
        THEN Or(Or(extractApiKey(request.headers), env.SFS_API_KEY), EmptyStr)
        ELSE Or(env.SFS_API_KEY, EmptyStr)
      clientKey ==
        IF Truthy(request.headers)
        THEN Or(Or(extractClientKey(request.headers), env.SFS_CLIENT_KEY),
                EmptyStr)
        ELSE Or(env.SFS_CLIENT_KEY, EmptyStr)
  IN  [ok |-> TRUE,
       session |-> Obj(<<Entry("apiKey", apiKey),
                         Entry("clientKey", clientKey)>>)]

\* if (session) ({apiKey, clientKey} = session) else the environment
SessionApiKey(session, env) ==
  IF Truthy(session) THEN Get(session, "apiKey")
  ELSE Or(env.SFS_API_KEY, EmptyStr)

SessionClientKey(session, env) ==
  IF Truthy(session) THEN Get(session, "clientKey")
  ELSE Or(env.SFS_CLIENT_KEY, EmptyStr)

\* A list_templates that rejects only when both keys are missing.
session_sfs_list_templates_and(args, session, env) ==
  LET apiKey == SessionApiKey(session, env)
      clientKey == SessionClientKey(session, env)
  IN  IF ~Truthy(apiKey) /\ ~Truthy(clientKey)
      THEN Throw(UnauthorizedErrorEnv)
      ELSE sfsApiCall(apiKey, "template",
             Obj(<<Entry("data",
                     Obj(<<Entry("clientKey", clientKey),
                           Entry("action", ListAction)>>))>>))

session_sfs_list_templates(args, session, env) ==
  LET apiKey == SessionApiKey(session, env)
      clientKey == SessionClientKey(session, env)
  IN  IF ~Truthy(apiKey) \/ ~Truthy(clientKey)
      THEN Throw(UnauthorizedErrorEnv)
      ELSE sfsApiCall(apiKey, "template",
             Obj(<<Entry("data",
                     Obj(<<Entry("clientKey", clientKey),
                           Entry("action", ListAction)>>))>>))

session_sfs_read_template(args, session, env) ==
  LET templateKey == args.templateKey
      apiKey == SessionApiKey(session, env)
      clientKey == SessionClientKey(session, env)
  IN  IF Missing(templateKey) THEN Throw(MissingArgument("templateKey"))
      ELSE IF ~Truthy(apiKey) \/ ~Truthy(clientKey)
      THEN Throw(UnauthorizedErrorEnv)
      ELSE sfsApiCall(apiKey, "template",
             Obj(<<Entry("data",
                     Obj(<<Entry("action", ReadAction),
                           Entry("clientKey", clientKey),
                           Entry("template",
                                 Obj(<<Entry("templateKey",
                                             templateKey)>>))>>))>>))

\* A list_placeholders that posts to the template endpoint.
session_sfs_list_placeholders_template(args, session, env) ==
  LET templateKey == args.templateKey
      apiKey == SessionApiKey(session, env)
      clientKey == SessionClientKey(session, env)
  IN  IF Missing(templateKey) THEN Throw(MissingArgument("templateKey"))
      ELSE IF ~Truthy(apiKey) \/ ~Truthy(clientKey)
      THEN Throw(UnauthorizedErrorEnv)
      ELSE sfsApiCall(apiKey, "template",
             Obj(<<Entry("data",
                     Obj(<<Entry("action", ListAction),
                           Entry("clientKey", clientKey),
                           Entry("templateKey", templateKey)>>))>>))

session_sfs_list_placeholders(args, session, env) ==
  LET templateKey == args.templateKey
      apiKey == SessionApiKey(session, env)
      clientKey == SessionClientKey(session, env)
  IN  IF Missing(templateKey) THEN Throw(MissingArgument("templateKey"))
      ELSE IF ~Truthy(apiKey) \/ ~Truthy(clientKey)
      THEN Throw(UnauthorizedErrorEnv)
      ELSE sfsApiCall(apiKey, "placeholder",
             Obj(<<Entry("data",
                     Obj(<<Entry("action", ListAction),
                           Entry("clientKey", clientKey),
                           Entry("templateKey", templateKey)>>))>>))

\* A create_contract that checks the credentials before the arguments.
session_sfs_create_contract_credentialsFirst(args, session, env) ==
  LET name == args.name
      value == args.value
      apiKey == SessionApiKey(session, env)
      clientKey == SessionClientKey(session, env)
  IN  IF ~Truthy(apiKey) \/ ~Truthy(clientKey)
      THEN Throw(UnauthorizedErrorEnv)
      ELSE IF Missing(name) THEN Throw(MissingArgument("name"))
      ELSE IF Missing(value) THEN Throw(MissingArgument("value"))
      ELSE sfsApiCall(apiKey, "contract",
             Obj(<<Entry("data",
                     Obj(<<Entry("action", CreateAction),
                           Entry("clientKey", clientKey),
                           Entry("contract",
                                 Obj(<<Entry("name", name),
                                       Entry("value", value)>>))>>))>>))

session_sfs_create_contract(args, session, env) ==
  LET name == args.name
      value == args.value
      apiKey == SessionApiKey(session, env)
      clientKey == SessionClientKey(session, env)
  IN  IF Missing(name) THEN Throw(MissingArgument("name"))
      ELSE IF Missing(value) THEN Throw(MissingArgument("value"))
      ELSE IF ~Truthy(apiKey) \/ ~Truthy(clientKey)
      THEN Throw(UnauthorizedErrorEnv)
      ELSE sfsApiCall(apiKey, "contract",
             Obj(<<Entry("data",
                     Obj(<<Entry("action", CreateAction),
                           Entry("clientKey", clientKey),
                           Entry("contract",
                                 Obj(<<Entry("name", name),
                                       Entry("value", value)>>))>>))>>))

----------------------------------------------------------------------------
(* The server: transport selection, one session, and its tool calls *)

\* A selection that looks at CLOUD_SERVICE only.
TransportTypeCloudOnly(env) ==
  IF env.CLOUD_SERVICE = TrueStr THEN "httpStream" ELSE "stdio"

\* server.start: httpStream when one of the three flags is "true".
TransportType(env) ==
  IF env.CLOUD_SERVICE = TrueStr \/ env.SSE_LOCAL = TrueStr
     \/ env.HTTP_STREAMABLE_SERVER = TrueStr
  THEN "httpStream" ELSE "stdio"

\* The value of a decimal digit, and of a string of decimal digits.
DigitValue(c) == CHOOSE d \in 0..9 : Digit(d) = c

RECURSIVE DigitsValue(_)
DigitsValue(str) ==
  IF str = <<>> THEN 0
  ELSE 10 * DigitsValue(SubSeq(str, 1, Len(str) - 1)) + DigitValue(str[Len(str)])

\* Number(v) of a number or of a string of decimal digits.
Number(v) == IF v.t = "number" THEN v ELSE Num(DigitsValue(v.s))

DefaultPort == 3000
AnyHost == Str(<<"0", ".", "0", ".", "0", ".", "0">>)
LocalHost == Str(<<"l", "o", "c", "a", "l", "h", "o", "s", "t">>)

\* const PORT = Number(process.env.PORT || 3000)
PORT(e) == Number(Or(e.PORT, Num(DefaultPort)))

\* A HOST that is forced whenever the transport is httpStream.
HOSTForcedByTransport(e) ==
  IF TransportType(e) = "httpStream" THEN AnyHost ELSE Or(e.HOST, LocalHost)

\* const HOST = CLOUD_SERVICE === "true" ? "0.0.0.0" : HOST || "localhost"
HOST(e) ==
  IF e.CLOUD_SERVICE = TrueStr THEN AnyHost ELSE Or(e.HOST, LocalHost)

\* The argument of server.start.
StartArgs(e) ==
  IF TransportType(e) = "httpStream"
  THEN [transportType |-> "httpStream",
        httpStream |-> [port |-> PORT(e), host |-> HOST(e),
                        stateless |-> TRUE]]
  ELSE [transportType |-> "stdio"]

authenticate(v, request, env) ==
  IF v = "index" THEN index_authenticate(request, env)
  ELSE session_authenticate(request, env)

\* The execute function of a tool, up to its first suspension.
execute(v, tool, args, session, env) ==
  CASE v = "index" /\ tool = "sfs_list_templates" ->
         index_sfs_list_templates(args, session, env)
    [] v = "index" /\ tool = "sfs_read_template" ->
         index_sfs_read_template(args, session, env)
    [] v = "session" /\ tool = "sfs_list_templates" ->
         session_sfs_list_templates(args, session, env)
    [] v = "session" /\ tool = "sfs_read_template" ->
         session_sfs_read_template(args, session, env)
    [] v = "session" /\ tool = "sfs_list_placeholders" ->
         session_sfs_list_placeholders(args, session, env)
    [] v = "session" /\ tool = "sfs_create_contract" ->
         session_sfs_create_contract(args, session, env)

VARIABLES
  variant,   \* which variant of the server runs
  env,       \* process.env, read-only
  conn,      \* "none" before the client has connected, then "open"
  headers,   \* request.headers the session was authenticated with
  auth,      \* what authenticate returned: [ok, session]
  session,   \* the session the tools are given (undefined when none)
  calls,     \* the bag of tool calls of the session, in flight or ended
  objIn,     \* the object removeEmptyTopLevel is applied to
  objOut,    \* what removeEmptyTopLevel returned (undefined before the call)
  startArgs, \* what server.start was called with (undefined before the call)
  files,     \* launcher: which entry points exist, and the platform
  child,     \* launcher: the child process
  launcher   \* launcher: the launcher process itself

serverVars == <<variant, env, conn, headers, auth, session, calls>>
pruneVars == <<objIn, objOut>>
startVars == <<startArgs>>
launcherVars == <<files, child, launcher>>
sideVars == <<pruneVars, startVars, launcherVars>>
vars == <<serverVars, sideVars>>

\* removeEmptyTopLevel is not under study: no input, no result.
PruneIdle == objIn = Undef /\ objOut = Undef

\* The start of the server is not under study.
StartIdle == startArgs = Undef

\* The launcher is not under study.
LauncherIdle == files = Undef /\ child = Undef /\ launcher = Undef

\* The calls as a set, and the number of calls made so far.
CallSet == BagToSet(calls)
NumCalls == BagCardinality(calls)

Init ==
  /\ variant \in Variants
  /\ env \in Envs
  /\ conn = "none"
  /\ headers = Undef
  /\ auth = [ok |-> FALSE, session |-> Undef]
  /\ session = Undef
  /\ calls = EmptyBag
  /\ PruneIdle
  /\ StartIdle
  /\ LauncherIdle

\* A client connects.  Over httpStream the request carries headers; over
\* stdio there is no HTTP request: headers are empty ("index") or undefined
\* ("session"), and the framework may hand the tools no session at all.
Connect ==
  /\ conn = "none"
  /\ \E h \in HeaderSets, given \in BOOLEAN :
       LET hs == IF TransportType(env) = "httpStream" THEN h
                 ELSE IF variant = "index" THEN Obj(<<>>) ELSE Undef
           a == authenticate(variant, [headers |-> hs], env)
       IN  /\ TransportType(env) = "httpStream" => given
           /\ TransportType(env) = "stdio" => h = Obj(<<>>)
           /\ headers' = hs
           /\ auth' = a
           /\ session' = IF a.ok /\ given THEN a.session ELSE Undef
           /\ conn' = IF a.ok THEN "open" ELSE "rejected"
  /\ UNCHANGED <<variant, env, calls>>
  /\ UNCHANGED sideVars

\* A Call that numbers the requests of the session in their bodies.
CallNumbered ==
  /\ conn = "open"
  /\ NumCalls < MaxCalls
  /\ \E tool \in Tools(variant) :
       \E args \in ArgSets(variant, tool) :
         LET r == execute(variant, tool, args, session, env)
             numbered == Obj(Append(r.req.body.e, Entry("id", Str(NumText(NumCalls)))))
             c == IF r.kind = "throw"
                  THEN [pc |-> "done", tool |-> tool, args |-> args,
                        req |-> NoReq, posts |-> 0, resp |-> NoResponse,
                        result |-> r.error]
                  ELSE [pc |-> "awaiting", tool |-> tool, args |-> args,
                        req |-> [r.req EXCEPT !.body = numbered], posts |-> 1,
                        resp |-> NoResponse, result |-> NoResult]
         IN  calls' = calls (+) SetToBag({c})
  /\ UNCHANGED <<variant, env, conn, headers, auth, session>>
  /\ UNCHANGED sideVars

\* A tool call arrives and its execute runs up to the POST, or throws.
Call ==
  /\ conn = "open"
  /\ NumCalls < MaxCalls
  /\ \E tool \in Tools(variant) :
       \E args \in ArgSets(variant, tool) :
         LET r == execute(variant, tool, args, session, env)
             c == IF r.kind = "throw"
                  THEN [pc |-> "done", tool |-> tool, args |-> args,
                        req |-> NoReq, posts |-> 0, resp |-> NoResponse,
                        result |-> r.error]
                  ELSE [pc |-> "awaiting", tool |-> tool, args |-> args,
                        req |-> r.req, posts |-> 1, resp |-> NoResponse,
                        result |-> NoResult]
         IN  calls' = calls (+) SetToBag({c})
  /\ UNCHANGED <<variant, env, conn, headers, auth, session>>
  /\ UNCHANGED sideVars

\* A Respond that keeps the last response in a place all calls share: a
\* call ends with the outcome of the response another call got before it.
RespondShared ==
  /\ \E c \in CallSet :
       /\ c.pc = "awaiting"
       /\ \E resp \in Responses :
            LET earlier == {e \in CallSet : e.pc = "done" /\ e.posts > 0}
                shared == IF earlier = {} THEN resp
                          ELSE (CHOOSE e \in earlier : TRUE).resp
                out == sfsCallResult(shared)
                d == CASE out.kind = "post" ->
                            [c EXCEPT !.posts = @ + 1]
                       [] out.kind = "throw" ->
                            [c EXCEPT !.pc = "done", !.resp = resp,
                                      !.result = out.error]
                       [] out.kind = "return" ->
                            [c EXCEPT !.pc = "done", !.resp = resp,
                                      !.result = Returned(asText(out.json))]
            IN  /\ out.kind = "post" => c.posts < MaxPosts
                /\ calls' = (calls (-) SetToBag({c})) (+) SetToBag({d})
  /\ UNCHANGED <<variant, env, conn, headers, auth, session>>
  /\ UNCHANGED sideVars

\* The backend answers the POST of a suspended call and sfsCall goes on:
\* the call ends with the parsed response as text, or with an error.
Respond ==
  /\ \E c \in CallSet :
       /\ c.pc = "awaiting"
       /\ \E resp \in Responses :
            LET out == sfsCallResult(resp)
                d == CASE out.kind = "post" ->
                            [c EXCEPT !.posts = @ + 1]
                       [] out.kind = "throw" ->
                            [c EXCEPT !.pc = "done", !.resp = resp,
                                      !.result = out.error]
                       [] out.kind = "return" ->
                            [c EXCEPT !.pc = "done", !.resp = resp,
                                      !.result = Returned(asText(out.json))]
            IN  /\ out.kind = "post" => c.posts < MaxPosts
                /\ calls' = (calls (-) SetToBag({c})) (+) SetToBag({d})
  /\ UNCHANGED <<variant, env, conn, headers, auth, session>>
  /\ UNCHANGED sideVars

Next ==
  \/ Connect
  \/ Call
  \/ Respond

Spec == Init /\ [][Next]_vars

----------------------------------------------------------------------------
(* removeEmptyTopLevel on its own: one object in, one object out *)

NoEnv ==
  [CLOUD_SERVICE |-> Undef, SSE_LOCAL |-> Undef,
   HTTP_STREAMABLE_SERVER |-> Undef, SFS_API_KEY |-> Undef,
   SFS_CLIENT_KEY |-> Undef]

\* No client and no tool call.
ServerIdle ==
  /\ variant = "index"
  /\ env = NoEnv
  /\ conn = "none"
  /\ headers = Undef
  /\ auth = [ok |-> FALSE, session |-> Undef]
  /\ session = Undef
  /\ calls = EmptyBag

InitPrune ==
  /\ ServerIdle
  /\ objIn \in PruneInputs
  /\ objOut = Undef
  /\ StartIdle
  /\ LauncherIdle

Prune ==
  /\ objOut = Undef
  /\ objOut' = removeEmptyTopLevel(objIn)
  /\ UNCHANGED <<objIn, serverVars, startVars, launcherVars>>

NextPrune == Prune

SpecPrune == InitPrune /\ [][NextPrune]_vars

----------------------------------------------------------------------------
(* The start of the server: transport, port and host from the environment *)

InitStart ==
  /\ variant \in Variants
  /\ env \in StartEnvs
  /\ conn = "none"
  /\ headers = Undef
  /\ auth = [ok |-> FALSE, session |-> Undef]
  /\ session = Undef
  /\ calls = EmptyBag
  /\ PruneIdle
  /\ LauncherIdle
  /\ startArgs = Undef

\* await server.start(args)
Start ==
  /\ startArgs = Undef
  /\ startArgs' = StartArgs(env)
  /\ UNCHANGED <<serverVars, pruneVars, launcherVars>>

NextStart == Start

SpecStart == InitStart /\ [][NextStart]_vars

----------------------------------------------------------------------------
(* src/bin/sendforsign-mcp.cjs: the launcher and its one child *)

SIGTERM == Str(<<"S", "I", "G", "T", "E", "R", "M">>)
SIGKILL == Str(<<"S", "I", "G", "K", "I", "L", "L">>)
SIGINT == Str(<<"S", "I", "G", "I", "N", "T">>)
Signals == {SIGTERM, SIGKILL, SIGINT}

ExitCodes == {Num(n) : n \in 0..MaxExitCode}

Platforms == {"linux", "win32"}

\* existsSync(distEntry), existsSync(tsEntry), process.platform
FileSets == [dist : BOOLEAN, ts : BOOLEAN, platform : Platforms]

NoChild ==
  [state |-> "none", command |-> "", entry |-> "", code |-> Null,
   signal |-> Null]

\* The launcher at the start of its script.
Launching ==
  [pc |-> "start", spawned |-> 0, raised |-> Null, exitCode |-> Null,
   killedBy |-> Null]

Terminated(l) == l.pc \in {"exited", "killed"}

\* process.platform === 'win32' ? `${tsxBin}.cmd` : tsxBin
tsxCmd(platform) ==
  IF platform = "win32" THEN "node_modules/.bin/tsx.cmd"
  ELSE "node_modules/.bin/tsx"

\* spawn(command, args, {stdio: 'inherit', cwd}): the child is started.
run(command, entry) ==
  [state |-> "running", command |-> command, entry |-> entry, code |-> Null,
   signal |-> Null]

\* An exit status that takes "no exit code" for success.
exitStatusZero(code) == IF code \in {Null, Undef} THEN Num(0) ELSE code

\* code == null ? 1 : code
exitStatus(code) == IF code \in {Null, Undef} THEN Num(1) ELSE code

\* process.exit(n)
Exit(l, n) == [l EXCEPT !.pc = "exited", !.exitCode = n]

InitLauncher ==
  /\ ServerIdle
  /\ PruneIdle
  /\ StartIdle
  /\ files \in FileSets
  /\ child = NoChild
  /\ launcher = Launching

\* The script body: the compiled entry if it exists, else the source entry
\* through tsx, else an error message and exit code 1.
Launch ==
  /\ launcher.pc = "start"
  /\ IF files.dist
     THEN /\ child' = run("process.execPath", "dist/index.js")
          /\ launcher' = [launcher EXCEPT !.pc = "waiting", !.spawned = @ + 1]
     ELSE IF files.ts
     THEN /\ child' = run(tsxCmd(files.platform), "src/index.ts")
          /\ launcher' = [launcher EXCEPT !.pc = "waiting", !.spawned = @ + 1]
     ELSE /\ child' = child
          /\ launcher' = Exit(launcher, Num(1))
  /\ UNCHANGED <<files, serverVars, pruneVars, startVars>>

\* The child ends: with an exit code, or terminated by a signal.
ChildExit ==
  /\ child.state = "running"
  /\ \/ \E code \in ExitCodes :
          child' = [child EXCEPT !.state = "exited", !.code = code]
     \/ \E signal \in Signals :
          child' = [child EXCEPT !.state = "exited", !.signal = signal]
  /\ UNCHANGED <<files, launcher, serverVars, pruneVars, startVars>>

\* The child could not be spawned.
ChildError ==
  /\ child.state = "running"
  /\ child' = [child EXCEPT !.state = "failed"]
  /\ UNCHANGED <<files, launcher, serverVars, pruneVars, startVars>>

\* child.on('exit', (code, signal) => ...): the signal is raised on the
\* launcher itself, which dies of it or goes on to process.exit.
OnExit ==
  /\ launcher.pc = "waiting"
  /\ child.state = "exited"
  /\ IF Truthy(child.signal)
     THEN \/ launcher' = [launcher EXCEPT !.pc = "killed",
                                          !.raised = child.signal,
                                          !.killedBy = child.signal]
          \/ launcher' = Exit([launcher EXCEPT !.raised = child.signal],
                              exitStatus(child.code))
     ELSE launcher' = Exit(launcher, exitStatus(child.code))
  /\ UNCHANGED <<files, child, serverVars, pruneVars, startVars>>

\* child.on('error', (err) => ...)
OnError ==
  /\ launcher.pc = "waiting"
  /\ child.state = "failed"
  /\ launcher' = Exit(launcher, Num(1))
  /\ UNCHANGED <<files, child, serverVars, pruneVars, startVars>>

NextLauncher ==
  \/ Launch
  \/ ChildExit
  \/ ChildError
  \/ OnExit
  \/ OnError

SpecLauncher == InitLauncher /\ [][NextLauncher]_vars

----------------------------------------------------------------------------
(* Vocabulary of the properties *)

Posted(c) == c.posts > 0

\* The `data` object of the body a call has posted.
DataOf(c) == Get(c.req.body, "data")

IsUnauthorized(r) == ~r.ok /\ r.msg # <<>> /\ r.msg[1] = UnauthorizedText

IsInvalidArgument(r, field) ==
  ~r.ok /\ r.msg = <<MissingText, "\"", field, "\"">>

\* A value that is absent, empty or whitespace only.
IsBlank(v) ==
  v.t = "undefined" \/ (v.t = "string" /\ \A i \in 1..Len(v.s) : v.s[i] = " ")

\* The required arguments of a tool, in the order they are validated.
Required(tool) ==
  CASE tool \in {"sfs_read_template", "sfs_list_placeholders"} ->
         <<"templateKey">>
    [] tool = "sfs_create_contract" -> <<"name", "value">>
    [] OTHER -> <<>>

BlankRequired(c) ==
  {f \in {Required(c.tool)[i] : i \in 1..Len(Required(c.tool))} :
     IsBlank(c.args[f])}

Stdio == TransportType(env) = "stdio"
Networked == TransportType(env) = "httpStream"

\* The headers of the session as an object (no header over stdio).
HeadersObj == IF Truthy(headers) THEN headers ELSE Obj(<<>>)

\* No source at all supplies the API key / the client key of call c.
NoApiKeySource ==
  ~Truthy(extractApiKey(HeadersObj)) /\ ~Truthy(env.SFS_API_KEY)

NoClientKeySource(c) ==
  /\ ~Truthy(Get(HeadersObj, "x-client-key"))
  /\ ~Truthy(c.args.clientKey)
  /\ ~Truthy(env.SFS_CLIENT_KEY)

----------------------------------------------------------------------------
(* Properties *)

\* C1: every outbound backend call carries a clientKey field inside `data`
\* and an API key in its header, for all header, argument and environment
\* values, blank ones included.
C1_OutboundCarriesCredentials ==
  \A c \in CallSet :
    Posted(c) =>
      /\ Get(DataOf(c), "clientKey") # Undef
      /\ c.req.apiKey # Undef

\* C2 as stated: whenever the API key or the client key cannot be resolved,
\* the call fails with Unauthorized and posts nothing.
C2_UnauthorizedWhenUnresolved ==
  \A c \in CallSet :
    (NoApiKeySource \/ NoClientKeySource(c)) =>
      /\ c.pc = "done"
      /\ IsUnauthorized(c.result)
      /\ c.posts = 0

\* C2 amended: whenever the API key or the client key cannot be resolved,
\* the call ends in an error and posts nothing; the error is Unauthorized
\* when no required argument is blank, and the InvalidArgument error of a
\* blank required argument otherwise.
C2_UnresolvedNeverPosts ==
  \A c \in CallSet :
    (NoApiKeySource \/ NoClientKeySource(c)) =>
      /\ c.pc = "done"
      /\ ~c.result.ok
      /\ c.posts = 0
      /\ BlankRequired(c) = {} => IsUnauthorized(c.result)
      /\ BlankRequired(c) # {} =>
           \E f \in BlankRequired(c) : IsInvalidArgument(c.result, f)

C2_Witness ==
  \E c \in CallSet :
    /\ NoApiKeySource /\ NoClientKeySource(c)
    /\ BlankRequired(c) = {}
    /\ IsUnauthorized(c.result)
    /\ c.posts = 0

\* C3: a call with a missing, empty or whitespace-only required argument
\* fails with the InvalidArgument error naming a blank required field (the
\* first one in validation order), never with Unauthorized, and posts
\* nothing.
C3_BlankRequiredArgument ==
  \A c \in CallSet :
    BlankRequired(c) # {} =>
      LET req == Required(c.tool)
          first == CHOOSE i \in 1..Len(req) :
                     /\ IsBlank(c.args[req[i]])
                     /\ \A j \in 1..(i - 1) : ~IsBlank(c.args[req[j]])
      IN  /\ c.pc = "done"
          /\ IsInvalidArgument(c.result, req[first])
          /\ ~IsUnauthorized(c.result)
          /\ c.posts = 0

C3_Witness ==
  /\ \E c \in CallSet :
       /\ c.tool = "sfs_read_template"
       /\ c.args.templateKey = Str(<<" ">>)
       /\ IsInvalidArgument(c.result, "templateKey")
       /\ c.posts = 0
  /\ \E c \in CallSet :
       /\ c.tool = "sfs_create_contract"
       /\ ~IsBlank(c.args.name) /\ IsBlank(c.args.value)
       /\ IsInvalidArgument(c.result, "value")

\* C4: in networked mode, when the request carries an API key in a
\* recognized header, the outbound call uses that header value as its API
\* key, whatever SFS_API_KEY is.
C4_HeaderApiKeyUsed ==
  Networked =>
    \A c \in CallSet :
      (Posted(c) /\ Truthy(extractApiKey(HeadersObj))) =>
        c.req.apiKey = extractApiKey(HeadersObj)

\* The highest-precedence client key that is present: header, then the
\* clientKey argument, then SFS_CLIENT_KEY.
PrecedenceClientKey(c) ==
  Or(Or(Get(HeadersObj, "x-client-key"), c.args.clientKey),
     env.SFS_CLIENT_KEY)

\* Each of the three client key sources is absent or a non-blank string.
PlainClientKeys(c) ==
  \A v \in {Get(HeadersObj, "x-client-key"), c.args.clientKey,
            env.SFS_CLIENT_KEY} : v = Undef \/ ~IsBlank(v)

\* C5: the outbound data.clientKey is the highest-precedence client key
\* that is present, with header > argument > environment.
C5_ClientKeyPrecedence ==
  \A c \in CallSet :
    (Posted(c) /\ PlainClientKeys(c)) =>
      Get(DataOf(c), "clientKey") = PrecedenceClientKey(c)

\* C6 as stated: over stdio, any two calls of the same operation send the
\* same API key and the same clientKey, whatever their arguments are.
C6_StdioEnvironmentAlone ==
  Stdio =>
    \A c1, c2 \in CallSet :
      (Posted(c1) /\ Posted(c2) /\ c1.tool = c2.tool) =>
        /\ c1.req.apiKey = c2.req.apiKey
        /\ Get(DataOf(c1), "clientKey") = Get(DataOf(c2), "clientKey")

\* C6 amended: over stdio, the API key of every outbound call is the
\* SFS_API_KEY of the environment, and any two calls of the same operation
\* with the same clientKey argument send the same clientKey: the
\* credentials depend on the environment and the call's own clientKey
\* argument only.
C6_StdioEnvironmentAndArgument ==
  Stdio =>
    /\ \A c \in CallSet : Posted(c) => c.req.apiKey = env.SFS_API_KEY
    /\ \A c1, c2 \in CallSet :
         (Posted(c1) /\ Posted(c2) /\ c1.tool = c2.tool
          /\ c1.args.clientKey = c2.args.clientKey) =>
           Get(DataOf(c1), "clientKey") = Get(DataOf(c2), "clientKey")

C6_Witness ==
  /\ Stdio
  /\ \E c1, c2 \in CallSet :
       /\ Posted(c1) /\ Posted(c2) /\ c1.tool = c2.tool
       /\ c1.args.clientKey # c2.args.clientKey
       /\ c1.req.apiKey = c2.req.apiKey
       /\ Get(DataOf(c1), "clientKey") # Get(DataOf(c2), "clientKey")

C8_ApiKeyNotOverridable ==
  \A c1, c2 \in CallSet :
    (Posted(c1) /\ Posted(c2) /\ c1.tool = c2.tool) =>
      c1.req.apiKey = c2.req.apiKey

C8_Witness ==
  \E c1, c2 \in CallSet :
    /\ Posted(c1) /\ Posted(c2) /\ c1.tool = c2.tool
    /\ c1.args # c2.args
    /\ c1.req.apiKey = c2.req.apiKey

\* The call was stopped by argument validation or credential resolution.
Rejected(c) ==
  \/ IsUnauthorized(c.result)
  \/ \E f \in {"templateKey", "name", "value"} : IsInvalidArgument(c.result, f)

\* The backend call of c failed: a transport error, a status outside 2xx.
BackendFailed(c) ==
  \/ c.resp.kind = "networkError"
  \/ c.resp.kind = "response"
     /\ (c.resp.statusCode < 200 \/ c.resp.statusCode >= 300)

\* C9: a call that passes validation and credential resolution issues
\* exactly one POST, every call issues at most one, and a call whose
\* backend call failed has ended in an error with its one POST.
C9_ExactlyOnePost ==
  \A c \in CallSet :
    /\ c.posts <= 1
    /\ c.req.method = (IF Posted(c) THEN "POST" ELSE "")
    /\ Rejected(c) => (c.pc = "done" /\ c.posts = 0)
    /\ ~Rejected(c) => c.posts = 1
    /\ BackendFailed(c) => (c.pc = "done" /\ ~c.result.ok /\ c.posts = 1)

C9_Witness ==
  /\ NumCalls = MaxCalls
  /\ \E c \in CallSet :
       /\ c.pc = "done" /\ c.resp.kind = "response"
       /\ c.resp.statusCode = 404
       /\ ~c.result.ok /\ c.posts = 1
  /\ \E c \in CallSet : c.pc = "done" /\ c.resp.kind = "networkError"

\* C10: whenever the backend answers with a status outside 2xx, the call
\* fails with an error whose message contains the status code and the raw
\* response body text, for every response body.
C10_BackendErrorCarriesStatusAndBody ==
  \A c \in CallSet :
    (c.pc = "done" /\ c.resp.kind = "response"
     /\ (c.resp.statusCode < 200 \/ c.resp.statusCode >= 300)) =>
      /\ ~c.result.ok
      /\ Contains(c.result.msg, NumText(c.resp.statusCode))
      /\ Contains(c.result.msg, c.resp.body)

\* The backend answered the POST of c with a 2xx status and a JSON text.
Succeeded(c) ==
  /\ c.pc = "done" /\ c.resp.kind = "response"
  /\ c.resp.statusCode >= 200 /\ c.resp.statusCode < 300
  /\ JsonParse(c.resp.body).ok

\* JSON.stringify(v, null, 2) of the value of BodySpaced, written out.
BodySpacedIndented ==
  <<"{", "\n", " ", " ", "\"", "e", "\"", ":", " ", "\"", "o", "\"", "\n",
    "}">>

\* C11: when the backend answers with a 2xx status and a JSON body, the
\* call returns the indented serialization of exactly the parsed value
\* (reading the text back gives the value of the body, nothing added,
\* removed or renamed), and two calls with the same response return the
\* same text, whatever their operation, arguments and credentials are.
C11_SuccessReturnsParsedBody ==
  /\ \A c \in CallSet :
       Succeeded(c) =>
         /\ c.result.ok
         /\ JsonParse(c.result.text).ok
         /\ JsonParse(c.result.text).v = JsonParse(c.resp.body).v
         /\ c.resp.body = BodySpaced => c.result.text = BodySpacedIndented
  /\ \A c1, c2 \in CallSet :
       (Succeeded(c1) /\ Succeeded(c2) /\ c1.resp = c2.resp) =>
         c1.result = c2.result

C11_Witness ==
  \E c1, c2 \in CallSet :
    /\ Succeeded(c1) /\ Succeeded(c2)
    /\ c1.tool # c2.tool /\ c1.req # c2.req
    /\ c1.resp = c2.resp /\ c1.resp.body = BodySpaced
    /\ c1.result.ok /\ c1.result.text = BodySpacedIndented

\* White space only, the empty string included.
AllSpace(str) == \A i \in 1..Len(str) : str[i] \in {" ", "\n"}

\* The values the pruning is said to omit.
OmittedValue(v) ==
  \/ v = Null \/ v = Undef
  \/ v.t = "string" /\ AllSpace(v.s)
  \/ v = Arr(<<>>)
  \/ v = Obj(<<>>)

EntrySet(o) == {o.e[i] : i \in 1..Len(o.e)}

\* C12: the result of removeEmptyTopLevel holds exactly the top-level
\* fields of its input whose value is not null or undefined, not a string
\* that is empty after trimming, not an empty array and not an empty
\* object, each once, in the order of the input, with its value unchanged:
\* what is nested in a kept value stays, also when it is empty itself.
C12_PruneKeepsExactlyNonEmptyFields ==
  objOut # Undef =>
    /\ objOut.t = "object"
    /\ EntrySet(objOut) = {en \in EntrySet(objIn) : ~OmittedValue(en.v)}
    /\ Len(objOut.e) = Cardinality(EntrySet(objOut))
    /\ \A i, j \in 1..Len(objOut.e) :
         i < j =>
           \E a, b \in 1..Len(objIn.e) :
             a < b /\ objIn.e[a] = objOut.e[i] /\ objIn.e[b] = objOut.e[j]
    /\ \A k \in Keys(objOut) : Get(objOut, k) = Get(objIn, k)

C12_Witness ==
  /\ objOut # Undef
  /\ Len(objIn.e) = 2 /\ Len(objOut.e) = 1
  /\ objIn.e[1].v = Str(<<" ", "\n">>)
  /\ Get(objOut, "b").t = "object"
  /\ Get(Get(objOut, "b"), "n") = Obj(<<>>)
  /\ Get(Get(objOut, "b"), "s") = Str(<<" ">>)

\* The fields the `data` object of an operation may hold.
OwnFields(tool) ==
  CASE tool = "sfs_list_templates" -> {"clientKey", "action"}
    [] tool = "sfs_read_template" -> {"action", "clientKey", "template"}
    [] tool = "sfs_list_placeholders" -> {"action", "clientKey", "templateKey"}
    [] tool = "sfs_create_contract" -> {"action", "clientKey", "contract"}

\* C13: when list_templates reaches the backend with a non-blank clientKey
\* k, its `data` object is exactly {clientKey: k, action: "list"}; and the
\* `data` object of every operation holds only its action, the clientKey
\* and the operation's own fields, none of them empty or blank.
C13_DataHoldsOwnNonBlankFields ==
  \A c \in CallSet :
    Posted(c) =>
      /\ (c.tool = "sfs_list_templates"
          /\ ~IsBlank(Get(DataOf(c), "clientKey"))) =>
           /\ Len(DataOf(c).e) = 2
           /\ Keys(DataOf(c)) = {"clientKey", "action"}
           /\ Get(DataOf(c), "action") = ListAction
      /\ Keys(c.req.body) = {"data"}
      /\ Keys(DataOf(c)) \subseteq OwnFields(c.tool)
      /\ \A en \in EntrySet(DataOf(c)) : ~OmittedValue(en.v)

RECURSIVE BodyMembers(_, _, _)
RECURSIVE BodyText(_)

\* The members of an object from the i-th on; first: none was written yet.
\* A member whose value is undefined is left out.
BodyMembers(e, i, first) ==
  IF i > Len(e) THEN <<>>
  ELSE IF e[i].v.t = "undefined" THEN BodyMembers(e, i + 1, first)
  ELSE (IF first THEN <<>> ELSE <<",">>)
       \o <<"\"", e[i].k, "\"", ":">> \o BodyText(e[i].v)
       \o BodyMembers(e, i + 1, FALSE)

\* JSON.stringify(body) of a request body: the text that is posted, the
\* name of a field written as one piece.
BodyText(v) ==
  CASE v.t = "string" -> <<"\"">> \o v.s \o <<"\"">>
    [] v.t = "object" -> <<"{">> \o BodyMembers(v.e, 1, TRUE) \o <<"}">>

\* The calls of the session that are the same call as c.
SameCall(c) == {d \in CallSet : d.tool = c.tool /\ d.args = c.args}

RECURSIVE NumOf(_)
NumOf(S) ==
  IF S = {} THEN 0
  ELSE LET c == CHOOSE x \in S : TRUE
       IN  CopiesIn(c, calls) + NumOf(S \ {c})

RECURSIVE PostsOf(_)
PostsOf(S) ==
  IF S = {} THEN 0
  ELSE LET c == CHOOSE x \in S : TRUE
       IN  CopiesIn(c, calls) * c.posts + PostsOf(S \ {c})

\* C14: read_template calls with identical arguments, in the same session
\* and environment, post one request each (two calls, two POSTs) to the
\* same endpoint with the same API key and byte-identical bodies; the
\* request of a call is what its execute builds from the arguments, the
\* session and the environment, whatever calls came before it.
C14_SameCallSameBody ==
  \A c \in CallSet :
    c.tool = "sfs_read_template" =>
      /\ ~Rejected(c) => PostsOf(SameCall(c)) = NumOf(SameCall(c))
      /\ Rejected(c) => PostsOf(SameCall(c)) = 0
      /\ \A d \in SameCall(c) :
           Posted(c) =>
             /\ Posted(d)
             /\ d.req = c.req
             /\ BodyText(d.req.body) = BodyText(c.req.body)
      /\ Posted(c) =>
           c.req = execute(variant, c.tool, c.args, session, env).req

C14_Witness ==
  \E c \in CallSet :
    /\ c.tool = "sfs_read_template" /\ Posted(c)
    /\ NumOf(SameCall(c)) = 2 /\ PostsOf(SameCall(c)) = 2
    /\ \E d \in SameCall(c) :
         /\ d.pc = "done" /\ c.pc = "awaiting"
         /\ BodyText(d.req.body) = BodyText(c.req.body)
         /\ Len(BodyText(c.req.body)) > 2

Started == startArgs # Undef
StartedNetworked == Started /\ startArgs.transportType = "httpStream"
TransportFlags == {env.CLOUD_SERVICE, env.SSE_LOCAL, env.HTTP_STREAMABLE_SERVER}

EndpointOf(tool) ==
  CASE tool \in {"sfs_list_templates", "sfs_read_template"} ->
         "https://api.sendforsign.com/api/template"
    [] tool = "sfs_list_placeholders" ->
         "https://api.sendforsign.com/api/placeholder"
    [] tool = "sfs_create_contract" ->
         "https://api.sendforsign.com/api/contract"

ActionOf(tool) ==
  CASE tool \in {"sfs_list_templates", "sfs_list_placeholders"} -> ListAction
    [] tool = "sfs_read_template" -> ReadAction
    [] tool = "sfs_create_contract" -> CreateAction

\* C17: every operation posts to the endpoint of its own resource with its
\* own action: list_templates "list" and read_template "read" to the
\* template endpoint, list_placeholders "list" to the placeholder endpoint,
\* create_contract "create" to the contract endpoint; two operations post
\* to the same endpoint only when both are template operations.
C17_OwnEndpointOwnAction ==
  /\ \A c \in CallSet :
       Posted(c) =>
         /\ c.req.endpoint = EndpointOf(c.tool)
         /\ c.req.method = "POST"
         /\ Get(DataOf(c), "action") = ActionOf(c.tool)
  /\ \A c1, c2 \in CallSet :
       (Posted(c1) /\ Posted(c2) /\ c1.tool # c2.tool
        /\ c1.req.endpoint = c2.req.endpoint) =>
         {c1.tool, c2.tool} = {"sfs_list_templates", "sfs_read_template"}

C17_Witness ==
  \E c1, c2 \in CallSet :
    /\ c1.tool = "sfs_list_placeholders" /\ Posted(c1)
    /\ c1.req.endpoint = "https://api.sendforsign.com/api/placeholder"
    /\ c2.tool = "sfs_create_contract" /\ Posted(c2)
    /\ c2.req.endpoint = "https://api.sendforsign.com/api/contract"
    /\ Get(DataOf(c2), "action") = CreateAction

\* The fields of its own arguments a posted call has to carry.
CarriesOwnFields(c) ==
  /\ (variant = "index" /\ Truthy(c.args.clientKey)) =>
       Get(DataOf(c), "clientKey") \in {c.args.clientKey, Undef}
  /\ c.tool = "sfs_read_template" =>
       Get(Get(DataOf(c), "template"), "templateKey") = c.args.templateKey
  /\ c.tool = "sfs_list_placeholders" =>
       Get(DataOf(c), "templateKey") = c.args.templateKey
  /\ c.tool = "sfs_create_contract" =>
       /\ Get(Get(DataOf(c), "contract"), "name") = c.args.name
       /\ Get(Get(DataOf(c), "contract"), "value") = c.args.value

\* The result of an ended call comes from the response to its own request.
ResultFromOwnResponse(c) ==
  /\ c.resp # NoResponse
  /\ c.result.ok <=> Succeeded(c)
  /\ c.result.ok => JsonParse(c.result.text).v = JsonParse(c.resp.body).v
  /\ c.resp.kind = "networkError" => c.result.name = "TypeError"
  /\ (c.resp.kind = "response" /\ ~JsonParse(c.resp.body).ok) =>
       c.result.name = "SyntaxError"
  /\ (c.resp.kind = "response" /\ JsonParse(c.resp.body).ok
      /\ ~c.result.ok) =>
       Contains(c.result.msg, NumText(c.resp.statusCode))

\* C18: in every interleaving of the calls of a session, each outbound
\* request is the one execute builds from the call's own arguments (its
\* own clientKey override, templateKey, name and value), a call in flight
\* has no response and no result whatever the other calls got, and the
\* result or error of an ended call is derived from the response to its
\* own request.
C18_CallsDoNotInterfere ==
  \A c \in CallSet :
    /\ Posted(c) =>
         /\ c.req = execute(variant, c.tool, c.args, session, env).req
         /\ CarriesOwnFields(c)
    /\ c.pc = "awaiting" => (c.resp = NoResponse /\ c.result = NoResult)
    /\ (c.pc = "done" /\ Posted(c)) => ResultFromOwnResponse(c)

C18_Witness ==
  \E c1, c2 \in CallSet :
    /\ c1.pc = "done" /\ c1.resp = Response(404, BodyCompact)
    /\ ~c1.result.ok
    /\ c2.pc = "awaiting" /\ c2.result = NoResult
    /\ c1.args.clientKey = Str(<<"a">>)
    /\ c2.args.clientKey = Undef
    /\ c1.args.templateKey # c2.args.templateKey
    /\ Get(DataOf(c1), "clientKey") = Str(<<"a">>)
    /\ Get(DataOf(c2), "clientKey") = env.SFS_CLIENT_KEY

\* The credentials the tools of the session resolve: one of them is missing.
CredentialsMissing(c) ==
  IF variant = "index"
  THEN ~Truthy(env.SFS_API_KEY)
       \/ ~Truthy(Or(c.args.clientKey, env.SFS_CLIENT_KEY))
  ELSE ~Truthy(SessionApiKey(session, env))
       \/ ~Truthy(SessionClientKey(session, env))

\* C19: a call that has a blank or missing required argument and missing
\* credentials fails with the InvalidArgument error naming the field,
\* never with Unauthorized, and posts nothing; create_contract with name
\* and value both blank names "name".
C19_ValidationBeforeCredentials ==
  \A c \in CallSet :
    /\ (BlankRequired(c) # {} /\ CredentialsMissing(c)) =>
         /\ c.pc = "done"
         /\ \E f \in BlankRequired(c) : IsInvalidArgument(c.result, f)
         /\ ~IsUnauthorized(c.result)
         /\ c.posts = 0
    /\ (c.tool = "sfs_create_contract"
        /\ BlankRequired(c) = {"name", "value"}) =>
         IsInvalidArgument(c.result, "name")

C19_Witness ==
  /\ \E c \in CallSet :
       /\ c.tool = "sfs_create_contract"
       /\ BlankRequired(c) = {"name", "value"}
       /\ CredentialsMissing(c)
       /\ IsInvalidArgument(c.result, "name")
  /\ \E c \in CallSet :
       /\ c.tool = "sfs_list_placeholders"
       /\ BlankRequired(c) = {"templateKey"}
       /\ CredentialsMissing(c)
       /\ IsInvalidArgument(c.result, "templateKey")

\* C20: the launcher starts at most one child: the compiled entry point
\* when it exists, otherwise the source entry point through tsx when that
\* exists, otherwise none, and then it exits with code 1.  Once a child
\* was started the launcher ends only after the child has exited or failed
\* to start: with the child's exit code, with 1 when the child could not
\* be spawned, and, when a signal ended the child, with that signal raised
\* on itself (it dies of the signal, or exits with 1 for want of a code).
C20_LauncherFollowsItsChild ==
  /\ launcher.spawned <= 1
  /\ launcher.spawned = (IF child.state = "none" THEN 0 ELSE 1)
  /\ launcher.pc # "start" =>
       /\ files.dist =>
            (child.entry = "dist/index.js"
             /\ child.command = "process.execPath")
       /\ (~files.dist /\ files.ts) =>
            (child.entry = "src/index.ts"
             /\ child.command \in {"node_modules/.bin/tsx",
                                   "node_modules/.bin/tsx.cmd"})
       /\ (~files.dist /\ ~files.ts) =>
            (child.state = "none" /\ launcher.pc = "exited"
             /\ launcher.exitCode = Num(1))
  /\ (Terminated(launcher) /\ launcher.spawned = 1) =>
       /\ child.state \in {"exited", "failed"}
       /\ child.state = "failed" =>
            (launcher.pc = "exited" /\ launcher.exitCode = Num(1))
       /\ (child.state = "exited" /\ child.signal = Null) =>
            (launcher.pc = "exited" /\ launcher.exitCode = child.code
             /\ launcher.raised = Null)
       /\ (child.state = "exited" /\ child.signal # Null) =>
            /\ launcher.raised = child.signal
            /\ \/ launcher.pc = "killed" /\ launcher.killedBy = child.signal
               \/ launcher.pc = "exited" /\ launcher.exitCode = Num(1)
  /\ ~Terminated(launcher) => (launcher.exitCode = Null
                               /\ launcher.raised = Null)

C20_Witness ==
  /\ ~files.dist /\ files.ts /\ files.platform = "win32"
  /\ child.command = "node_modules/.bin/tsx.cmd"
  /\ child.state = "exited" /\ child.signal = SIGTERM
  /\ launcher.pc = "exited" /\ launcher.raised = SIGTERM
  /\ launcher.exitCode = Num(1)

====
